---- MODULE Spec2Model ----
(***************************************************************************)
(* uniclock firmware: the task queue and scheduler loop of Clock           *)
(* (firmware/clock.py), the message task (firmware/gfx.py scroll_text),    *)
(* time keeping (Clock.update_time / apply_config), the brightness         *)
(* controller (firmware/main.py light_sense) and the MQTT receiver with    *)
(* its handlers (firmware/main.py mqtt_receiver, Clock.sync_time).         *)
(*                                                                         *)
(* uasyncio is cooperative: a coroutine runs without interruption from one *)
(* await to the next, so every action below is the code between two        *)
(* awaits of one coroutine.                                                *)
(*                                                                         *)
(* Brightness values are fixed-point numbers in units of 1e-4.             *)
(***************************************************************************)
EXTENDS Integers, Sequences, FiniteSets, TLC

VARIABLES
    \* ---- Clock: task queue and scheduler loop (clock.py) ----
    task_queue,   \* Clock.task_queue: the queued display_message closures (by identity)
    loop,         \* position of Clock.main_loop: "unstarted", "tick", "task", "sleep", "dead"
    running,      \* the message task main_loop is awaiting (scroll_text frame), or NoTask
    producers,    \* state of each producer coroutine: "unstarted", "running" or "dead"
    enqueue_result, \* outcome of the latest message_task call: "none", "ok", "IndexError"
    attempts,     \* number of message_task calls so far (names the closures)
    accepted,     \* history: closures appended to task_queue, in order
    started,      \* history: closures main_loop has called, in order
    finished,     \* history: closures whose coroutine has returned, in order
    display,      \* what the last gu.update put on the panel
    \* ---- Clock: time keeping (clock.py) ----
    rtc,          \* machine.RTC: [hour, minute, second]
    elapsed,      \* wall-clock seconds since start-up
    config,       \* main.py's global config dictionary
    utc_offset, twentyfour,
    hour, minute, second, last_second,
    ret,          \* value returned by the latest update_time call
    since_call,   \* wall-clock seconds since the latest update_time call
    same_second,  \* the latest update_time call came in the wall-clock second of the call before it
    lastOp,       \* latest Clock time-keeping operation
    \* ---- brightness controller (main.py light_sense) ----
    light_task,   \* position of light_sense: "unstarted", "created", "running", "dead"
    lights, lights_next, prev_bright, actual_bright,
    light_shift, light_scale,
    brightness,   \* the display driver's brightness (gu.get_brightness())
    cmds,         \* history: values passed to gu.set_brightness, main's first
    iters,        \* light_sense loop iterations so far
    \* ---- MQTT receiver (main.py) and message closures (clock.py) ----
    captured,     \* what each display_message closure captured: text, fg_name, bg_name
    scrolled,     \* arguments of the latest gfx.scroll_text call that drew: text, fg, bg
    received,     \* the payload mqtt_receiver handled last
    deliveries,   \* number of payloads mqtt_receiver has taken from client.queue
    config_file,  \* contents of clock-config.json
    \* ---- start-up (main.py main, load_config) ----
    clock_config, \* Clock.config: the dictionary Clock.__init__ was given
    config_loaded, \* load_config has rebound the global config to a loaded dictionary
    main_task     \* position of main(): "start", "connecting", "main_loop", "dead"

schedVars == <<task_queue, loop, running, producers, enqueue_result, attempts,
               accepted, started, finished, display>>
clockVars == <<rtc, elapsed, config, utc_offset, twentyfour, hour, minute, second,
               last_second, ret, since_call, same_second, lastOp>>
lightVars == <<light_task, lights, lights_next, prev_bright, actual_bright,
               light_shift, light_scale, brightness, cmds, iters>>
mqttVars == <<captured, scrolled, received, deliveries, config_file,
              clock_config, config_loaded, main_task>>
vars == <<schedVars, clockVars, lightVars, mqttVars>>

----------------------------------------------------------------------------
\* Bounds of the model.
MaxAttempts == 12      \* message_task calls explored
MaxSchedSeconds == 2   \* seconds of wall-clock time explored with the scheduler
MaxElapsed == 61       \* seconds of wall-clock time explored for time keeping
MaxIter == 6           \* light_sense iterations explored with arbitrary readings
MaxFloorIter == 40     \* light_sense iterations explored with floor readings
MaxDeliveries == 2     \* payloads explored with the receiver alone
MaxMessages == 3       \* payloads explored with the receiver and the scheduler
MaxColorUpdates == 3   \* payloads explored with colour updates and status messages
MaxBootIter == 3       \* light_sense iterations explored while main() connects

----------------------------------------------------------------------------
\* Program constants.
QueueCap == 10                 \* collections.deque((), 10, 1)
width == 53                    \* GalacticUnicorn.WIDTH
x_margin == 2                  \* use_message_font() returns 2, 2
SecondsPerMinute == 60
MinutesPerHour == 60
HoursPerDay == 24
One == 10000                   \* 1.0 in the fixed-point unit (1e-4)

Producers == {"mqtt_receiver", "mqtt_up"}

IsPrefix(s, t) == Len(s) <= Len(t) /\ SubSeq(t, 1, Len(s)) = s

----------------------------------------------------------------------------
\* Time keeping: firmware/clock.py.

\* Values a config entry can hold after json.loads: a JSON string (as its
\* characters), a JSON number or a JSON boolean.
Str(chars) == [t |-> "str", v |-> chars]
Num(n) == [t |-> "int", v |-> n]
Bool(b) == [t |-> "bool", v |-> b]
\* A JSON number with a fraction, in the fixed-point unit.
Float(n) == [t |-> "float", v |-> n]
\* A JSON string that is one word with no digit, sign or point in it: the
\* conversions never look inside such a word, so it is kept whole.
Word(w) == Str(<<w>>)

Digits == <<"0", "1", "2", "3", "4", "5", "6", "7", "8", "9">>
IsDigit(c) == \E i \in 1..10 : Digits[i] = c
DigitVal(c) == (CHOOSE i \in 1..10 : Digits[i] = c) - 1

RECURSIVE DigitsVal(_, _)
\* Value of a run of decimal digits, most significant first, onto acc.
DigitsVal(chars, acc) ==
    IF chars = <<>> THEN acc
    ELSE DigitsVal(Tail(chars), acc * 10 + DigitVal(Head(chars)))

\* Python int(x) of a config value: [ok, v]; ok = FALSE is ValueError.
int(raw) ==
    IF raw.t = "int" THEN [ok |-> TRUE, v |-> raw.v]
    ELSE IF raw.t = "bool" THEN [ok |-> TRUE, v |-> IF raw.v THEN 1 ELSE 0]
    ELSE IF raw.t = "float"
    THEN [ok |-> TRUE,
          v |-> IF raw.v >= 0 THEN raw.v \div One ELSE 0 - ((0 - raw.v) \div One)]
    ELSE LET signed == raw.v # <<>> /\ Head(raw.v) \in {"-", "+"}
             body == IF signed THEN Tail(raw.v) ELSE raw.v
         IN  IF body = <<>> \/ \E i \in 1..Len(body) : ~IsDigit(body[i])
             THEN [ok |-> FALSE, v |-> 0]
             ELSE [ok |-> TRUE,
                   v |-> IF signed /\ Head(raw.v) = "-"
                         THEN 0 - DigitsVal(body, 0) ELSE DigitsVal(body, 0)]

\* Python bool(x) of a config value.
bool(raw) ==
    IF raw.t = "bool" THEN raw.v
    ELSE IF raw.t \in {"int", "float"} THEN raw.v # 0
    ELSE raw.v # <<>>

\* dict.get(key, default).
get(obj, key, default) == IF key \in DOMAIN obj THEN obj[key] ELSE default

\* dict.update(other): the entries of other over those of obj.
update(obj, other) == other @@ obj

\* dict.pop(key, default): the dictionary without the key.
pop(obj, key) == [k \in DOMAIN obj \ {key} |-> obj[k]]

\* The default configuration of main.py.
DefaultConfig ==
    ("24_hour" :> Bool(TRUE)) @@
    [ utc_offset |-> Str(<<"0">>),
      message_fg |-> Word("blue"), message_bg |-> Word("black"),
      error_fg |-> Word("red"), error_bg |-> Word("black"),
      status_fg |-> Word("yellow"), status_bg |-> Word("black") ]

\* Clock.apply_config: the fields it assigns; raised when int() raises, and
\* then nothing has been assigned.
apply_config(cfg, old_offset, old_twentyfour) ==
    LET i == int(cfg["utc_offset"])
    IN  IF i.ok
        THEN [raised |-> FALSE, utc_offset |-> i.v, twentyfour |-> bool(cfg["24_hour"])]
        ELSE [raised |-> TRUE, utc_offset |-> old_offset, twentyfour |-> old_twentyfour]

\* An update_time that does not record the second it has seen.
update_time_forgetful(now, offset, tf, last) ==
    [hour |-> IF tf THEN (now.hour + offset) % 24 ELSE (now.hour + offset) % 12,
     minute |-> now.minute,
     second |-> now.second,
     last_second |-> last,
     ret |-> now.second # last]

\* An update_time that recomputes the hour only when the second has changed.
update_time_lazy(now, offset, tf, last) ==
    [hour |-> IF now.second = last THEN hour
              ELSE IF tf THEN (now.hour + offset) % 24 ELSE (now.hour + offset) % 12,
     minute |-> now.minute,
     second |-> now.second,
     last_second |-> now.second,
     ret |-> now.second # last]

\* An update_time that adds the offset and does not wrap the hour.
update_time_unwrapped(now, offset, tf, last) ==
    [hour |-> now.hour + offset,
     minute |-> now.minute,
     second |-> now.second,
     last_second |-> now.second,
     ret |-> now.second # last]

\* Clock.update_time: the fields it assigns and the value it returns.
update_time(now, offset, tf, last) ==
    [hour |-> IF tf THEN (now.hour + offset) % 24 ELSE (now.hour + offset) % 12,
     minute |-> now.minute,
     second |-> now.second,
     last_second |-> now.second,
     ret |-> now.second # last]

\* Clock.percent_to_midday: seconds through the day, from the fields.
time_through_day(h, m, sec) == (((h * 60) + m) * 60) + sec

\* Clock.text: the fields formatted as HH:MM:SS.
text(h, m, s) == <<h, m, s>>

\* machine.RTC one second later.
RtcNext(now) ==
    IF now.second + 1 < SecondsPerMinute
    THEN [now EXCEPT !.second = now.second + 1]
    ELSE IF now.minute + 1 < MinutesPerHour
    THEN [now EXCEPT !.second = 0, !.minute = now.minute + 1]
    ELSE [hour |-> (now.hour + 1) % HoursPerDay, minute |-> 0, second |-> 0]

\* RTC readings at which the model starts.
StartTimes == {[hour |-> 23, minute |-> 59, second |-> 30],
               [hour |-> 11, minute |-> 59, second |-> 58]}

\* Config values a config update can carry.
UtcOffsets == {Str(<<"0">>), Str(<<"5">>), Num(-3)}
HourFormats == {Bool(TRUE), Bool(FALSE)}

\* Clock.__init__, time-keeping part: last_second = -1 and update_time under
\* the offset and the hour format apply_config has assigned.
InitRtc(starts) ==
    /\ rtc \in starts
    /\ elapsed = 0
    /\ LET u == update_time(rtc, utc_offset, twentyfour, -1)
       IN  /\ hour = u.hour
           /\ minute = u.minute
           /\ second = u.second
           /\ last_second = u.last_second
           /\ ret = u.ret
    /\ since_call = 0
    /\ same_second = FALSE
    /\ lastOp = "init"

\* Clock.__init__, time-keeping part: last_second = -1, apply_config, update_time.
InitClock(starts) ==
    /\ config = DefaultConfig
    /\ utc_offset = apply_config(DefaultConfig, 0, TRUE).utc_offset
    /\ twentyfour = apply_config(DefaultConfig, 0, TRUE).twentyfour
    /\ InitRtc(starts)

\* A call of Clock.update_time.
CallUpdateTime ==
    LET u == update_time(rtc, utc_offset, twentyfour, last_second)
    IN  /\ hour' = u.hour
        /\ minute' = u.minute
        /\ second' = u.second
        /\ last_second' = u.last_second
        /\ ret' = u.ret
        /\ since_call' = 0
        /\ same_second' = (since_call = 0)
        /\ lastOp' = "update_time"
        /\ UNCHANGED <<rtc, elapsed, config, utc_offset, twentyfour>>

\* A second of wall-clock time passes.
RtcTick(bound) ==
    /\ elapsed < bound
    /\ rtc' = RtcNext(rtc)
    /\ elapsed' = elapsed + 1
    /\ since_call' = since_call + 1
    /\ UNCHANGED <<config, utc_offset, twentyfour, hour, minute, second,
                   last_second, ret, same_second, lastOp>>

----------------------------------------------------------------------------
\* Task queue and scheduler loop: firmware/clock.py, firmware/gfx.py.

NoTask == [id |-> 0, at |-> "none", x |-> 0, min_x |-> 0]

\* Panel contents after gfx.draw_text(gu, "Connecting") in main().
Connecting == [kind |-> "text", id |-> 0, x |-> 0, text |-> <<>>]
ClockFace(t) == [kind |-> "clock", id |-> 0, x |-> 0, text |-> t]
Message(id, x) == [kind |-> "message", id |-> id, x |-> x, text |-> <<>>]

\* A queued closure is known by its number; nothing reads the text it captured
\* before it runs, so what the text is shows when scroll_text measures it.
\* What graphics.measure_text(text, 1) can do with the text of a message: a
\* width in pixels, or TypeError for a text that is not a string.
TextWidths == {20, 53, 54, 55}
MeasureResults == [ok : {TRUE}, tw : TextWidths] \cup {[ok |-> FALSE, tw |-> 0]}

\* deque.append without the overflow flag: a full deque drops its oldest item.
deque_append_overwrite(queue, item) ==
    IF Len(queue) >= QueueCap
    THEN [raised |-> FALSE, queue |-> Append(Tail(queue), item)]
    ELSE [raised |-> FALSE, queue |-> Append(queue, item)]

\* deque.append on deque((), 10, 1): flag 1 checks for overflow, so append on a
\* full deque raises IndexError and leaves the deque as it was.
deque_append(queue, item) ==
    IF Len(queue) >= QueueCap
    THEN [raised |-> TRUE, queue |-> queue]
    ELSE [raised |-> FALSE, queue |-> Append(queue, item)]

\* A deque read from the wrong end.
deque_pop(queue) ==
    [item |-> queue[Len(queue)], queue |-> SubSeq(queue, 1, Len(queue) - 1)]

\* deque.popleft: the item and the rest.
deque_popleft(queue) == [item |-> Head(queue), queue |-> Tail(queue)]

\* Clock.message_task: builds the closure (named id) and appends it.
message_task(queue, id) == deque_append(queue, id)

\* gfx.COLORS: the colour names that have a pen.
COLORS == {Word(c) : c \in {"black", "white", "red", "green", "blue", "yellow",
                            "purple", "cyan", "orange"}}

\* A text handed to message_task by a producer whose payload is left open.
AnyText == [t |-> "any", v |-> <<>>]

\* What display_message captures in Clock.message_task: the text and the
\* colour names, an unknown name replaced by white (fg) or black (bg).
closure(message, fg_name, bg_name) ==
    [text |-> message,
     fg_name |-> IF fg_name \in COLORS THEN fg_name ELSE Word("white"),
     bg_name |-> IF bg_name \in COLORS THEN bg_name ELSE Word("black")]

\* A display_message that looks up the message colours when it runs.
display_message_late(c) ==
    [text |-> c.text,
     fg |-> closure(c.text, config["message_fg"], config["message_bg"]).fg_name,
     bg |-> closure(c.text, config["message_fg"], config["message_bg"]).bg_name]

\* display_message: the arguments it passes to gfx.scroll_text (a pen of
\* gfx.COLORS is named by its colour).
display_message(c) == [text |-> c.text, fg |-> c.fg_name, bg |-> c.bg_name]

\* No scroll_text call has drawn yet.
NoScroll == [text |-> AnyText, fg |-> Word("none"), bg |-> Word("none")]

\* graphics.measure_text(text, 1) for a captured text: a width for a string,
\* TypeError for anything else; either for a text left open.
measure_text(message) ==
    IF message.t = "any" THEN MeasureResults
    ELSE IF message.t = "str" THEN {m \in MeasureResults : m.ok}
    ELSE {m \in MeasureResults : ~m.ok}

\* gfx.scroll_text up to its first await: the frame it suspends in and the
\* panel it has drawn; raised when measure_text raises.
scroll_text_begin(id, m, shown) ==
    IF ~m.ok THEN [raised |-> TRUE, frame |-> NoTask, display |-> shown]
    ELSE LET off_screen == m.tw - width
         IN  IF off_screen < 1
             THEN LET x == (width - m.tw + 2) \div 2
                  IN  [raised |-> FALSE,
                       frame |-> [id |-> id, at |-> "sleep_fit", x |-> x, min_x |-> 0],
                       display |-> Message(id, x)]
             ELSE [raised |-> FALSE,
                   frame |-> [id |-> id, at |-> "sleep_head", x |-> x_margin,
                              min_x |-> 0 - off_screen - x_margin],
                   display |-> Message(id, x_margin)]

\* A scroll loop that never moves the text.
scroll_text_stuck(f, shown) ==
    IF f.at \in {"sleep_fit", "sleep_tail"}
    THEN [done |-> TRUE, frame |-> NoTask, display |-> shown]
    ELSE IF f.x > f.min_x
    THEN [done |-> FALSE,
          frame |-> [f EXCEPT !.at = "sleep_scroll"],
          display |-> Message(f.id, f.x)]
    ELSE [done |-> FALSE, frame |-> [f EXCEPT !.at = "sleep_tail"], display |-> shown]

\* gfx.scroll_text from one await to the next, or to its return (done).
scroll_text_resume(f, shown) ==
    IF f.at \in {"sleep_fit", "sleep_tail"}
    THEN [done |-> TRUE, frame |-> NoTask, display |-> shown]
    ELSE IF f.x > f.min_x
    THEN [done |-> FALSE,
          frame |-> [f EXCEPT !.at = "sleep_scroll", !.x = f.x - 1],
          display |-> Message(f.id, f.x)]
    ELSE [done |-> FALSE, frame |-> [f EXCEPT !.at = "sleep_tail"], display |-> shown]

\* A main_loop that does not wait for the task it started.
AtTickOrTask == loop \in {"tick", "task"}

\* main_loop is at the top of its while loop.
AtTick == loop = "tick"

InitSched ==
    /\ task_queue = <<>>
    /\ loop = "tick"
    /\ running = NoTask
    /\ producers = [p \in Producers |-> "running"]
    /\ enqueue_result = "none"
    /\ attempts = 0
    /\ accepted = <<>>
    /\ started = <<>>
    /\ finished = <<>>
    /\ display = Connecting

\* clock-config.json does not exist.
NoFile == [exists |-> FALSE, json |-> <<>>]

\* main() has entered main_loop: no closure built, no payload received, no
\* config file, so load_config left the global config bound to the
\* dictionary Clock holds.
InitMqtt ==
    /\ captured = <<>>
    /\ scrolled = NoScroll
    /\ received = [seen |-> FALSE,
                   payload |-> [json |-> FALSE, object |-> FALSE, obj |-> <<>>],
                   outcome |-> "none"]
    /\ deliveries = 0
    /\ config_file = NoFile
    /\ clock_config = DefaultConfig
    /\ config_loaded = FALSE
    /\ main_task = "main_loop"

\* A producer coroutine (mqtt_receiver via handle_message or sync_time, mqtt_up
\* via scroll_status) calls message_task. None of them catches IndexError, so
\* it ends the producer's coroutine. The text is left open; the colours are
\* those scroll_status reads from the configuration.
Enqueue(p) ==
    /\ loop # "dead"
    /\ producers[p] = "running"
    /\ attempts < MaxAttempts
    /\ LET id == attempts + 1
           r == message_task(task_queue, id)
       IN  /\ attempts' = id
           /\ task_queue' = r.queue
           /\ enqueue_result' = IF r.raised THEN "IndexError" ELSE "ok"
           /\ accepted' = IF r.raised THEN accepted ELSE Append(accepted, id)
           /\ producers' = IF r.raised THEN [producers EXCEPT ![p] = "dead"]
                           ELSE producers
           /\ captured' = IF r.raised THEN captured
                          ELSE captured @@ (id :> closure(AnyText,
                                                          clock_config["status_fg"],
                                                          clock_config["status_bg"]))
    /\ UNCHANGED <<loop, running, started, finished, display>>
    /\ UNCHANGED <<scrolled, received, deliveries, config_file>>
    /\ UNCHANGED <<clock_config, config_loaded, main_task>>
    /\ UNCHANGED <<clockVars, lightVars>>

\* main_loop, "if tasks:" branch: await tasks.popleft()(). There is no try
\* around the await, so an exception of the task leaves main_loop.
RunQueuedTask ==
    /\ AtTick
    /\ task_queue # <<>>
    /\ LET p == deque_popleft(task_queue)
       IN  \E m \in measure_text(captured[p.item].text) :
            LET b == scroll_text_begin(p.item, m, display)
            IN  /\ task_queue' = p.queue
                /\ started' = Append(started, p.item)
                /\ running' = b.frame
                /\ display' = b.display
                /\ scrolled' = IF b.raised THEN scrolled
                               ELSE display_message(captured[p.item])
                /\ loop' = IF b.raised THEN "dead" ELSE "task"
    /\ UNCHANGED <<producers, enqueue_result, attempts, accepted, finished>>
    /\ UNCHANGED <<captured, received, deliveries, config_file>>
    /\ UNCHANGED <<clock_config, config_loaded, main_task>>
    /\ UNCHANGED <<clockVars, lightVars>>

\* A base task that draws the clock on every tick.
base_task_always(changed, face, shown) == face

\* main_loop, else branch: "if self.update_time(): gfx.draw_clock(...)". The
\* panel after it: the clock face when the second has changed.
base_task(changed, face, shown) == IF changed THEN face ELSE shown

\* main_loop, else branch: the base task renders the clock when update_time
\* says the second has changed; then main_loop sleeps.
BaseTask ==
    /\ AtTick
    /\ task_queue = <<>>
    /\ CallUpdateTime
    /\ display' = base_task(ret', ClockFace(text(hour', minute', second')), display)
    /\ loop' = "sleep"
    /\ UNCHANGED <<task_queue, running, producers, enqueue_result, attempts,
                   accepted, started, finished>>
    /\ UNCHANGED <<lightVars, mqttVars>>

\* The awaited message task wakes from a sleep; when it returns, main_loop
\* goes on to its own sleep.
TaskResume ==
    /\ loop = "task"
    /\ LET r == scroll_text_resume(running, display)
       IN  /\ running' = r.frame
           /\ display' = r.display
           /\ finished' = IF r.done THEN Append(finished, running.id) ELSE finished
           /\ loop' = IF r.done THEN "sleep" ELSE "task"
    /\ UNCHANGED <<task_queue, producers, enqueue_result, attempts, accepted, started>>
    /\ UNCHANGED <<clockVars, lightVars, mqttVars>>

\* main_loop wakes from asyncio.sleep(0.1).
LoopWake ==
    /\ loop = "sleep"
    /\ loop' = "tick"
    /\ UNCHANGED <<task_queue, running, producers, enqueue_result, attempts,
                   accepted, started, finished, display>>
    /\ UNCHANGED <<clockVars, lightVars, mqttVars>>

\* Wall-clock time passes while the scheduler runs.
SchedRtcTick ==
    /\ loop # "dead"
    /\ RtcTick(MaxSchedSeconds)
    /\ UNCHANGED <<schedVars, lightVars, mqttVars>>

----------------------------------------------------------------------------
\* Brightness controller: firmware/main.py light_sense.

LIGHT_SENSOR_SAMPLES == 6
LIGHT_RECENCY_BIAS == 2000     \* 0.2
MIN_BRIGHT_STEP == 100         \* 0.01
StartupBrightness == 2000      \* gu.set_brightness(0.2) in main()
DefaultLightShift == -3000     \* light_shift = -0.3
DefaultLightScale == 1500      \* light_scale = 0.15

\* Precision of math.log in the model: the fraction bits of the base-2
\* logarithm, 2^bits, and ln 2 in the fixed-point unit.
LogPrecision == [bits |-> 14, one |-> 16384, ln2 |-> 6931]
FracBits == LogPrecision.bits
FracOne == LogPrecision.one
Ln2 == LogPrecision.ln2

Abs(a) == IF a < 0 THEN 0 - a ELSE a
Min(a, b) == IF a < b THEN a ELSE b
Max(a, b) == IF a > b THEN a ELSE b

\* Floats that are not finite: float("inf") and float("nan") are numbers
\* beyond every finite value of the model; -inf is 0 - Inf.
NonFinite == [inf |-> 1000000000, nan |-> 2000000000]
Inf == NonFinite.inf
NaN == NonFinite.nan
IsNaN(a) == a = NaN
IsInf(a) == a = Inf \/ a = 0 - Inf

\* Float comparison a < b: False when either side is nan.
lt(a, b) == ~IsNaN(a) /\ ~IsNaN(b) /\ a < b

\* Float product of two fixed-point values: 0 * inf is nan.
fmul(a, b) ==
    IF IsNaN(a) \/ IsNaN(b) THEN NaN
    ELSE IF IsInf(a) \/ IsInf(b)
    THEN IF a = 0 \/ b = 0 THEN NaN
         ELSE IF (a > 0) = (b > 0) THEN Inf ELSE 0 - Inf
    ELSE (a * b) \div One

\* Float sum: inf + -inf is nan.
fadd(a, b) ==
    IF IsNaN(a) \/ IsNaN(b) THEN NaN
    ELSE IF IsInf(a) /\ IsInf(b) THEN (IF a = b THEN a ELSE NaN)
    ELSE IF IsInf(a) THEN a
    ELSE IF IsInf(b) THEN b
    ELSE a + b

\* Python min(a, b) and max(a, b): the first argument unless the second
\* compares smaller (larger), so a nan first argument is returned.
min(a, b) == IF lt(b, a) THEN b ELSE a
max(a, b) == IF lt(a, b) THEN b ELSE a

RECURSIVE SumSeq(_)
SumSeq(q) == IF q = <<>> THEN 0 ELSE Head(q) + SumSeq(Tail(q))

RECURSIVE FloorLog2(_)
\* floor(log2 n) for n >= 1.
FloorLog2(n) == IF n < 2 THEN 0 ELSE 1 + FloorLog2(n \div 2)

RECURSIVE Pow2(_)
Pow2(k) == IF k = 0 THEN 1 ELSE 2 * Pow2(k - 1)

RECURSIVE Log2Frac(_, _)
\* The fraction bits of log2 of the mantissa m (m / FracOne in [1, 2)), by
\* repeated squaring; bits are produced most significant first.
Log2Frac(m, bits) ==
    IF bits = 0 THEN 0
    ELSE LET sq == (m * m) \div FracOne
         IN  IF sq >= 2 * FracOne
             THEN Pow2(bits - 1) + Log2Frac(sq \div 2, bits - 1)
             ELSE Log2Frac(sq, bits - 1)

\* math.log(n) in the fixed-point unit: [ok, v]; ok = FALSE is the ValueError
\* ("math domain error") math.log raises for n <= 0.
log(n) ==
    IF n <= 0 THEN [ok |-> FALSE, v |-> 0]
    ELSE LET k == FloorLog2(n)
             m == (n * FracOne) \div Pow2(k)
             log2 == k * FracOne + Log2Frac(m, FracBits)
         IN  [ok |-> TRUE, v |-> (log2 * Ln2) \div FracOne]

\* A hysteresis test without the minimum step.
StepExceededAlways(bright, actual) == bright # actual

\* The hysteresis test of light_sense; a comparison with nan is False.
StepExceeded(bright, actual) ==
    ~IsNaN(bright) /\ ~IsNaN(actual) /\ Abs(bright - actual) > MIN_BRIGHT_STEP

\* A loop pass without the weighted average of previous and current brightness.
light_iter_unsmoothed(ls, reading, shift, scale) ==
    LET lights1 == [ls.lights EXCEPT ![ls.lights_next + 1] = reading]
        next1 == (ls.lights_next + 1) % LIGHT_SENSOR_SAMPLES
        light == SumSeq(lights1) \div LIGHT_SENSOR_SAMPLES
        lg == log(light)
        raw == fadd(fmul(lg.v, scale), shift)
        bright == max(min(raw, One), 0)
        set == StepExceeded(bright, ls.actual_bright)
    IN  IF ~lg.ok
        THEN [raised |-> TRUE, set |-> FALSE, lights |-> lights1, lights_next |-> next1,
              prev_bright |-> ls.prev_bright, actual_bright |-> ls.actual_bright]
        ELSE [raised |-> FALSE, set |-> set, lights |-> lights1, lights_next |-> next1,
              prev_bright |-> bright,
              actual_bright |-> IF set THEN bright ELSE ls.actual_bright]

\* One pass of the while loop of light_sense, up to its await, with `reading`
\* the value of gu.light(): the locals after it, whether gu.set_brightness
\* was called (set), and raised when math.log raised (the locals assigned
\* before the raise are kept).
light_iter(ls, reading, shift, scale) ==
    LET lights1 == [ls.lights EXCEPT ![ls.lights_next + 1] = reading]
        next1 == (ls.lights_next + 1) % LIGHT_SENSOR_SAMPLES
        light == SumSeq(lights1) \div LIGHT_SENSOR_SAMPLES
        lg == log(light)
        raw == fadd(fmul(lg.v, scale), shift)
        clamped == max(min(raw, One), 0)
        prev_bias == One - LIGHT_RECENCY_BIAS
        bright == IF IsNaN(ls.prev_bright) \/ IsNaN(clamped) THEN NaN
                  ELSE (ls.prev_bright * prev_bias + clamped * LIGHT_RECENCY_BIAS) \div One
        set == StepExceeded(bright, ls.actual_bright)
    IN  IF ~lg.ok
        THEN [raised |-> TRUE, set |-> FALSE, lights |-> lights1, lights_next |-> next1,
              prev_bright |-> ls.prev_bright, actual_bright |-> ls.actual_bright]
        ELSE [raised |-> FALSE, set |-> set, lights |-> lights1, lights_next |-> next1,
              prev_bright |-> bright,
              actual_bright |-> IF set THEN bright ELSE ls.actual_bright]

\* Values gu.light() can return (the sensor outputs 0-4095).
Lights == {0, 1, 300, 4095}
FloorLights == {1}

\* (light_shift, light_scale) pairs a persisted config can have set at start-up.
LightConfigs == {<<DefaultLightShift, DefaultLightScale>>, <<0, 1200>>,
                 <<3000, 1500>>, <<6000, 1500>>}

\* main() up to asyncio.create_task(light_sense()): load_config has applied
\* light_shift/light_scale, gu.set_brightness(0.2) has been called.
InitLight(configs) ==
    /\ light_task = "created"
    /\ lights = <<>>
    /\ lights_next = 0
    /\ prev_bright = 0
    /\ actual_bright = 0
    /\ \E c \in configs : light_shift = c[1] /\ light_scale = c[2]
    /\ brightness = StartupBrightness
    /\ cmds = <<StartupBrightness>>
    /\ iters = 0

\* The effect of one loop pass on the state.
LightPass(ls, reading) ==
    LET r == light_iter(ls, reading, light_shift, light_scale)
    IN  /\ lights' = r.lights
        /\ lights_next' = r.lights_next
        /\ prev_bright' = r.prev_bright
        /\ actual_bright' = r.actual_bright
        /\ brightness' = IF r.set THEN r.actual_bright ELSE brightness
        /\ cmds' = IF r.set THEN Append(cmds, r.actual_bright) ELSE cmds
        /\ light_task' = IF r.raised THEN "dead" ELSE "running"
        /\ iters' = iters + 1
        /\ UNCHANGED <<light_shift, light_scale>>

\* light_sense from its start to its first await: the locals are set up from
\* gu.get_brightness() and a first gu.light(), then the first loop pass runs.
LightSenseStart(readings) ==
    /\ light_task = "created"
    /\ \E first \in readings, reading \in readings :
        LightPass([lights |-> [i \in 1..LIGHT_SENSOR_SAMPLES |-> first],
                   lights_next |-> 0,
                   prev_bright |-> brightness,
                   actual_bright |-> brightness], reading)
    /\ UNCHANGED <<schedVars, clockVars, mqttVars>>

\* light_sense wakes from asyncio.sleep(0.1) and runs the next loop pass.
LightSenseLoop(readings, bound) ==
    /\ light_task = "running"
    /\ iters < bound
    /\ \E reading \in readings :
        LightPass([lights |-> lights, lights_next |-> lights_next,
                   prev_bright |-> prev_bright, actual_bright |-> actual_bright],
                  reading)
    /\ UNCHANGED <<schedVars, clockVars, mqttVars>>

----------------------------------------------------------------------------
\* MQTT receiver: firmware/main.py mqtt_receiver, handle_config,
\* handle_message, apply_config; firmware/clock.py sync_time.

\* Python float(x) of a config value, in the fixed-point unit: [ok, v];
\* ok = FALSE is ValueError. A string is the word nan or inf, or is read as
\* sign, digits and at most one point; digits past the fourth decimal are
\* dropped.
float(raw) ==
    IF raw.t = "float" THEN [ok |-> TRUE, v |-> raw.v]
    ELSE IF raw.t = "int" THEN [ok |-> TRUE, v |-> raw.v * One]
    ELSE IF raw.t = "bool" THEN [ok |-> TRUE, v |-> IF raw.v THEN One ELSE 0]
    ELSE IF raw.v = <<"nan">> THEN [ok |-> TRUE, v |-> NaN]
    ELSE IF raw.v = <<"inf">> THEN [ok |-> TRUE, v |-> Inf]
    ELSE LET signed == raw.v # <<>> /\ Head(raw.v) \in {"-", "+"}
             body == IF signed THEN Tail(raw.v) ELSE raw.v
             points == {i \in 1..Len(body) : body[i] = "."}
             cut == IF points = {} THEN Len(body) + 1 ELSE CHOOSE i \in points : TRUE
             whole == SubSeq(body, 1, cut - 1)
             frac == SubSeq(body, cut + 1, Len(body))
             frac4 == SubSeq(frac \o <<"0", "0", "0", "0">>, 1, 4)
         IN  IF \/ Cardinality(points) > 1
                \/ whole \o frac = <<>>
                \/ \E i \in 1..Len(body) : ~(IsDigit(body[i]) \/ body[i] = ".")
             THEN [ok |-> FALSE, v |-> 0]
             ELSE LET mag == DigitsVal(whole, 0) * One + DigitsVal(frac4, 0)
                  IN  [ok |-> TRUE,
                       v |-> IF signed /\ Head(raw.v) = "-" THEN 0 - mag ELSE mag]

\* No closure was built.
NoClosure == closure(AnyText, Word("none"), Word("none"))

\* What a handler of the receiver leaves behind when it does nothing.
NoEffect ==
    [raised |-> FALSE, config |-> config,
     utc_offset |-> utc_offset, twentyfour |-> twentyfour,
     light_shift |-> light_shift, light_scale |-> light_scale,
     config_file |-> config_file, enqueue |-> "none", queue |-> task_queue,
     closure |-> NoClosure, time_set |-> FALSE]

\* What the module globals and the Clock fields hold once main.py has been
\* imported: the defaults, with Clock.apply_config applied by Clock.__init__.
Constructed ==
    [raised |-> FALSE, config |-> DefaultConfig,
     utc_offset |-> apply_config(DefaultConfig, 0, TRUE).utc_offset,
     twentyfour |-> apply_config(DefaultConfig, 0, TRUE).twentyfour,
     light_shift |-> DefaultLightShift, light_scale |-> DefaultLightScale,
     config_file |-> NoFile, enqueue |-> "none", queue |-> <<>>,
     closure |-> NoClosure, time_set |-> FALSE]

\* main.py apply_config on the dictionary cfg, from the settings of old:
\* clock.apply_config, then light_shift, then light_scale; an exception
\* leaves the later ones unset.
apply_config_from(cfg, old) ==
    LET a == apply_config(cfg, old.utc_offset, old.twentyfour)
        shift == IF "light_shift" \in DOMAIN cfg THEN float(cfg["light_shift"])
                 ELSE [ok |-> TRUE, v |-> old.light_shift]
        scale == IF "light_scale" \in DOMAIN cfg THEN float(cfg["light_scale"])
                 ELSE [ok |-> TRUE, v |-> old.light_scale]
    IN  [raised |-> a.raised \/ ~shift.ok \/ ~scale.ok,
         config |-> cfg,
         utc_offset |-> a.utc_offset,
         twentyfour |-> a.twentyfour,
         light_shift |-> IF ~a.raised /\ shift.ok THEN shift.v ELSE old.light_shift,
         light_scale |-> IF ~a.raised /\ shift.ok /\ scale.ok THEN scale.v
                         ELSE old.light_scale,
         config_file |-> old.config_file, enqueue |-> "none", queue |-> old.queue,
         closure |-> NoClosure, time_set |-> FALSE]

\* main.py apply_config on the dictionary cfg, in the current state.
main_apply_config(cfg) == apply_config_from(cfg, NoEffect)

\* main.py handle_config: config.update(obj), config.pop("persist"),
\* apply_config(), and the write of clock-config.json when obj asks for it.
handle_config(obj) ==
    LET cfg == pop(update(config, obj), "persist")
        a == main_apply_config(cfg)
    IN  IF a.raised THEN a
        ELSE IF bool(get(obj, "persist", Bool(FALSE)))
        THEN [a EXCEPT !.config_file = [exists |-> TRUE, json |-> cfg]]
        ELSE a

\* Clock.message_task as a handler sees it: the closure is built, the append
\* raises IndexError on a full queue.
enqueue_closure(c, id) ==
    LET r == message_task(task_queue, id)
    IN  [NoEffect EXCEPT !.raised = r.raised, !.queue = r.queue, !.closure = c,
                         !.enqueue = IF r.raised THEN "IndexError" ELSE "ok"]

\* main.py handle_message: obj["message"] raises KeyError when the key is
\* missing; an empty message is printed and dropped.
handle_message(obj, id) ==
    IF "message" \notin DOMAIN obj THEN [NoEffect EXCEPT !.raised = TRUE]
    ELSE IF bool(obj["message"])
    THEN enqueue_closure(closure(obj["message"],
                                 get(obj, "foreground", config["message_fg"]),
                                 get(obj, "background", config["message_bg"])), id)
    ELSE NoEffect

\* What the network does to a Clock.sync_time call.
SyncOutcomes == {"dns_fail", "ntp_fail", "ntp_ok"}

\* Clock.scroll_status: message_task with the status colours of self.config.
scroll_status(message, id) ==
    enqueue_closure(closure(message, clock_config["status_fg"],
                            clock_config["status_bg"]), id)

\* Clock.scroll_error: message_task with the error colours of self.config.
scroll_error(message, id) ==
    enqueue_closure(closure(message, clock_config["error_fg"],
                            clock_config["error_bg"]), id)

\* Clock.sync_time: usocket.getaddrinfo is called before the try, so its
\* OSError leaves sync_time; the OSError of ntptime.settime is caught.
sync_time(outcome, id) ==
    IF outcome = "dns_fail" THEN [NoEffect EXCEPT !.raised = TRUE]
    ELSE IF outcome = "ntp_ok"
    THEN [scroll_status(Word("NTP synced"), id) EXCEPT !.time_set = TRUE]
    ELSE scroll_error(Word("Time sync failed"), id)

\* A payload of client.queue: whether json.loads accepts it, whether the
\* value is a JSON object, and the object.
NotJson == [json |-> FALSE, object |-> FALSE, obj |-> <<>>]
JsonScalar == [json |-> TRUE, object |-> FALSE, obj |-> <<>>]
Obj(f) == [json |-> TRUE, object |-> TRUE, obj |-> f]

\* One iteration of the loop of mqtt_receiver on payload p. ValueError of
\* json.loads is caught; obj.get on a value that is not an object raises
\* AttributeError; whatever a handler raises leaves mqtt_receiver.
mqtt_receiver(p, outcome, id) ==
    IF ~p.json THEN NoEffect
    ELSE IF ~p.object THEN [NoEffect EXCEPT !.raised = TRUE]
    ELSE LET mtype == get(p.obj, "type", Bool(FALSE))
         IN  IF ~bool(mtype) THEN NoEffect
             ELSE IF mtype = Word("config") THEN handle_config(p.obj)
             ELSE IF mtype = Word("message") THEN handle_message(p.obj, id)
             ELSE IF mtype = Word("sync") THEN sync_time(outcome, id)
             ELSE NoEffect

\* clock-config.json holds text that json.load rejects.
MalformedFile == [exists |-> TRUE, json |-> NotJson]

\* clock-config.json as handle_config writes it after a persisted update
\* that changed no entry.
SavedFile == [exists |-> TRUE, json |-> DefaultConfig]

\* A clock-config.json written by hand, with the colour entries only.
PartialFile == [exists |-> TRUE, json |-> [status_fg |-> Word("green")]]

\* A clock-config.json whose status colour is not a name of gfx.COLORS.
OddColourFile == [exists |-> TRUE,
                  json |-> update(DefaultConfig, [status_fg |-> Word("teal")])]

\* main.py load_config. OSError of open and ValueError of json.load are
\* caught and leave the global config alone. Otherwise the loaded dictionary
\* becomes the global config, a new object: Clock.config still is the
\* dictionary Clock was constructed with. apply_config then runs on it; the
\* ValueError of int() and float() is caught, the KeyError of a missing entry
\* is not.
load_config(file, old) ==
    IF ~file.exists \/ file = MalformedFile
    THEN [loaded |-> FALSE, raised |-> FALSE, effect |-> old]
    ELSE IF {"utc_offset", "24_hour"} \subseteq DOMAIN file.json
    THEN [loaded |-> TRUE, raised |-> FALSE,
          effect |-> [apply_config_from(file.json, old) EXCEPT !.raised = FALSE]]
    ELSE [loaded |-> TRUE, raised |-> TRUE,
          effect |-> [old EXCEPT !.config = file.json]]

\* RTC values ntptime.settime can set.
NtpTimes == StartTimes

\* The payload is an object whose type entry is the word w.
HasType(p, w) == p.json /\ p.object /\ get(p.obj, "type", Bool(FALSE)) = Word(w)

\* mqtt_receiver takes one payload from client.queue and handles it.
MqttReceive(payloads, bound) ==
    /\ loop # "dead"
    /\ producers["mqtt_receiver"] = "running"
    /\ deliveries < bound
    /\ attempts < MaxAttempts
    /\ \E p \in payloads, outcome \in SyncOutcomes :
        \E id \in {attempts + 1} : \E r \in {mqtt_receiver(p, outcome, id)} :
            /\ received' = [seen |-> TRUE, payload |-> p,
                             outcome |-> IF HasType(p, "sync") THEN outcome ELSE "none"]
            /\ deliveries' = deliveries + 1
            /\ producers' = IF r.raised
                            THEN [producers EXCEPT !["mqtt_receiver"] = "dead"]
                            ELSE producers
            /\ config' = r.config
            /\ clock_config' = IF config_loaded THEN clock_config ELSE r.config
            /\ utc_offset' = r.utc_offset
            /\ twentyfour' = r.twentyfour
            /\ light_shift' = r.light_shift
            /\ light_scale' = r.light_scale
            /\ config_file' = r.config_file
            /\ task_queue' = r.queue
            /\ enqueue_result' = IF r.enqueue = "none" THEN enqueue_result ELSE r.enqueue
            /\ attempts' = IF r.enqueue = "none" THEN attempts ELSE id
            /\ accepted' = IF r.enqueue = "ok" THEN Append(accepted, id) ELSE accepted
            /\ captured' = IF r.enqueue = "ok" THEN captured @@ (id :> r.closure)
                           ELSE captured
            /\ IF r.time_set THEN rtc' \in NtpTimes ELSE rtc' = rtc
    /\ UNCHANGED <<loop, running, started, finished, display, scrolled>>
    /\ UNCHANGED <<config_loaded, main_task>>
    /\ UNCHANGED <<elapsed, hour, minute, second, last_second, ret, since_call,
                   same_second, lastOp>>
    /\ UNCHANGED <<light_task, lights, lights_next, prev_bright, actual_bright,
                   brightness, cmds, iters>>

----------------------------------------------------------------------------
\* Specifications.

SchedStart == {[hour |-> 23, minute |-> 59, second |-> 59]}
DefaultLight == {<<DefaultLightShift, DefaultLightScale>>}

\* The scheduler loop with its producers and the passing of time.
Init == InitSched /\ InitClock(SchedStart) /\ InitLight(DefaultLight) /\ InitMqtt

Next ==
    \/ \E p \in Producers : Enqueue(p)
    \/ RunQueuedTask
    \/ BaseTask
    \/ TaskResume
    \/ LoopWake
    \/ SchedRtcTick

Spec == Init /\ [][Next]_vars

\* Time keeping: any sequence of update_time calls, config updates and seconds.
UpdateTimeCall ==
    /\ CallUpdateTime
    /\ UNCHANGED <<schedVars, lightVars, mqttVars>>

\* A config payload that sets the UTC offset and the hour format.
ConfigUpdate(off, fmt) ==
    Obj(("24_hour" :> fmt) @@ [type |-> Word("config"), utc_offset |-> off])

\* main.py handle_config on a config payload with an offset of the given set.
ConfigStep(offsets) ==
    /\ \E off \in offsets, fmt \in HourFormats :
        \E r \in {handle_config(ConfigUpdate(off, fmt).obj)} :
            /\ config' = r.config
            /\ clock_config' = IF config_loaded THEN clock_config ELSE r.config
            /\ utc_offset' = r.utc_offset
            /\ twentyfour' = r.twentyfour
            /\ light_shift' = r.light_shift
            /\ light_scale' = r.light_scale
            /\ config_file' = r.config_file
    /\ lastOp' = "apply_config"
    /\ UNCHANGED <<rtc, elapsed, hour, minute, second, last_second, ret,
                   since_call, same_second>>
    /\ UNCHANGED <<light_task, lights, lights_next, prev_bright, actual_bright,
                   brightness, cmds, iters>>
    /\ UNCHANGED <<schedVars, captured, scrolled, received, deliveries>>
    /\ UNCHANGED <<config_loaded, main_task>>

HandleConfig == ConfigStep(UtcOffsets)

TimeRtcTick ==
    /\ RtcTick(MaxElapsed)
    /\ UNCHANGED <<schedVars, lightVars, mqttVars>>

InitTime == InitSched /\ InitClock(StartTimes) /\ InitLight(DefaultLight) /\ InitMqtt

NextTime ==
    \/ UpdateTimeCall
    \/ HandleConfig
    \/ TimeRtcTick

SpecTime == InitTime /\ [][NextTime]_vars

\* The brightness controller under arbitrary sensor readings.
LightStart == LightSenseStart(Lights)
LightLoop == LightSenseLoop(Lights, MaxIter)

SenseConfigs == {<<DefaultLightShift, DefaultLightScale>>, <<3000, 1500>>}

InitLightSense == InitSched /\ InitClock(SchedStart) /\ InitLight(SenseConfigs) /\ InitMqtt

NextLight ==
    \/ LightStart
    \/ LightLoop

SpecLight == InitLightSense /\ [][NextLight]_vars

\* The brightness controller when every sensor reading is the floor reading 1.
FloorStart == LightSenseStart(FloorLights)
FloorLoop == LightSenseLoop(FloorLights, MaxFloorIter)

NextFloor ==
    \/ FloorStart
    \/ FloorLoop

InitFloor == InitSched /\ InitClock(SchedStart) /\ InitLight(LightConfigs) /\ InitMqtt

SpecFloor == InitFloor /\ [][NextFloor]_vars

\* The brightness controller under positive sensor readings, with the
\* light_shift and light_scale a persisted config can hold after float():
\* finite values of either sign and size, nan and inf.
PositiveLights == {1, 300, 4095}
BrightConfigs == {<<DefaultLightShift, DefaultLightScale>>, <<0, 20000>>,
                  <<20000, -1500>>, <<NaN, DefaultLightScale>>, <<0, Inf>>,
                  <<0 - Inf, DefaultLightScale>>}

BrightStart == LightSenseStart(PositiveLights)
BrightLoop == LightSenseLoop(PositiveLights, MaxIter)

InitBright == InitSched /\ InitClock(SchedStart) /\ InitLight(BrightConfigs) /\ InitMqtt

NextBright ==
    \/ BrightStart
    \/ BrightLoop

SpecBright == InitBright /\ [][NextBright]_vars

\* Time keeping over the whole day: every RTC hour, offsets of either sign
\* and beyond a day, both hour formats.
AllTimes == {[hour |-> h, minute |-> m, second |-> sec] :
                h \in 0..(HoursPerDay - 1), m \in {0, 59}, sec \in {0, 59}}
WideOffsets == {Num(-30), Num(-3), Num(0), Num(5), Num(13), Str(<<"4", "8">>)}

WideConfig == ConfigStep(WideOffsets)

InitHour == InitSched /\ InitClock(AllTimes) /\ InitLight(DefaultLight) /\ InitMqtt

NextHour ==
    \/ UpdateTimeCall
    \/ WideConfig

SpecHour == InitHour /\ [][NextHour]_vars

\* The receiver and the status messages of mqtt_up, the scheduler not running.
Payloads ==
    {NotJson,
     JsonScalar,
     Obj([message |-> Word("hello")]),
     Obj([type |-> Word("reboot")]),
     Obj(("24_hour" :> Bool(FALSE)) @@
         [type |-> Word("config"), utc_offset |-> Str(<<"5">>),
          light_shift |-> Float(1000), message_fg |-> Word("green")]),
     Obj([type |-> Word("config"), utc_offset |-> Word("soon"),
          status_fg |-> Word("green")]),
     Obj([type |-> Word("config"), utc_offset |-> Num(-3),
          light_shift |-> Str(<<"0", ".", "1">>), light_scale |-> Word("high")]),
     Obj([type |-> Word("config"), utc_offset |-> Str(<<"5">>), persist |-> Bool(TRUE)]),
     Obj([type |-> Word("message"), message |-> Word("hello")]),
     Obj([type |-> Word("message"), message |-> Word("hello"),
          foreground |-> Word("green"), background |-> Word("pink")]),
     Obj([type |-> Word("message")]),
     Obj([type |-> Word("message"), message |-> Str(<<>>)]),
     Obj([type |-> Word("message"), message |-> Num(5)]),
     Obj([type |-> Word("sync")])}

Receive == MqttReceive(Payloads, MaxDeliveries)
MqttUp == Enqueue("mqtt_up")

NextMqtt ==
    \/ Receive
    \/ MqttUp

SpecMqtt == Init /\ [][NextMqtt]_vars

\* Messages and colour updates from the receiver, with the scheduler running.
MessagePayloads ==
    {Obj([type |-> Word("message"), message |-> Word("hello")]),
     Obj([type |-> Word("message"), message |-> Word("hello"),
          foreground |-> Word("green"), background |-> Word("pink")]),
     Obj([type |-> Word("config"), message_fg |-> Word("green"),
          message_bg |-> Word("white")]),
     Obj([type |-> Word("config"), message_fg |-> Word("pink")])}

ReceiveMessage == MqttReceive(MessagePayloads, MaxMessages)

NextMsg ==
    \/ ReceiveMessage
    \/ RunQueuedTask
    \/ BaseTask
    \/ TaskResume
    \/ LoopWake

SpecMsg == Init /\ [][NextMsg]_vars

\* Status and error messages after colour updates, for each clock-config.json
\* main() can have started from and reached main_loop. In every one of them
\* the two dictionaries hold the same entries when main_loop starts.
ColorFiles == {NoFile, MalformedFile, SavedFile}

ColorPayloads ==
    {Obj([type |-> Word("config"), status_fg |-> Word("green"),
          status_bg |-> Word("white")]),
     Obj([type |-> Word("config"), error_fg |-> Word("pink"),
          error_bg |-> Word("white")]),
     Obj([type |-> Word("sync")])}

\* The state main_loop starts in when main() found the file: load_config has
\* run on what the module constructed.
InitLoaded(files) ==
    \E f \in files : \E l \in {load_config(f, [Constructed EXCEPT !.config_file = f])} :
        /\ ~l.raised
        /\ config_file = f
        /\ config_loaded = l.loaded
        /\ config = l.effect.config
        /\ clock_config = Constructed.config
        /\ utc_offset = l.effect.utc_offset
        /\ twentyfour = l.effect.twentyfour
        /\ light_shift = l.effect.light_shift
        /\ light_scale = l.effect.light_scale
        /\ captured = <<>>
        /\ scrolled = NoScroll
        /\ received = [seen |-> FALSE, payload |-> NotJson, outcome |-> "none"]
        /\ deliveries = 0
        /\ main_task = "main_loop"

\* The brightness controller before its first pass, light_shift and
\* light_scale as load_config left them.
InitSense ==
    /\ light_task = "created"
    /\ lights = <<>>
    /\ lights_next = 0
    /\ prev_bright = 0
    /\ actual_bright = 0
    /\ brightness = StartupBrightness
    /\ cmds = <<StartupBrightness>>
    /\ iters = 0

InitColors == InitSched /\ InitLoaded(ColorFiles) /\ InitRtc(SchedStart) /\ InitSense

ReceiveColors == MqttReceive(ColorPayloads, MaxColorUpdates)
StatusUp == Enqueue("mqtt_up")

NextColors ==
    \/ ReceiveColors
    \/ StatusUp

SpecColors == InitColors /\ [][NextColors]_vars

\* Start-up: asyncio.run(main()) from the imported module to main_loop.
BootFiles == {NoFile, MalformedFile, SavedFile, PartialFile, OddColourFile}
ConnectOutcomes == {"ok", "OSError"}

\* The panel before main() has drawn on it.
Blank == [kind |-> "blank", id |-> 0, x |-> 0, text |-> <<>>]

\* main.py has been imported: the globals and the Clock are constructed, no
\* coroutine has run. The driver's brightness is not read before main sets it.
InitBoot ==
    /\ task_queue = <<>>
    /\ loop = "unstarted"
    /\ running = NoTask
    /\ producers = [p \in Producers |-> "unstarted"]
    /\ enqueue_result = "none"
    /\ attempts = 0
    /\ accepted = <<>>
    /\ started = <<>>
    /\ finished = <<>>
    /\ display = Blank
    /\ InitClock(SchedStart)
    /\ light_task = "unstarted"
    /\ lights = <<>>
    /\ lights_next = 0
    /\ prev_bright = 0
    /\ actual_bright = 0
    /\ light_shift = Constructed.light_shift
    /\ light_scale = Constructed.light_scale
    /\ brightness \in {0, One}
    /\ cmds = <<>>
    /\ iters = 0
    /\ captured = <<>>
    /\ scrolled = NoScroll
    /\ received = [seen |-> FALSE, payload |-> NotJson, outcome |-> "none"]
    /\ deliveries = 0
    /\ config_file \in BootFiles
    /\ clock_config = Constructed.config
    /\ config_loaded = FALSE
    /\ main_task = "start"

\* main() from its start to its first await, client.connect() in setup_mqtt:
\* load_config, gu.set_brightness(0.2), create_task(light_sense()), draw_text
\* of "Connecting". A KeyError of load_config ends main before the brightness
\* is set; gfx.COLORS[config["status_fg"]] raises KeyError for a missing
\* entry and for a name gfx.COLORS does not have.
MainStart ==
    /\ main_task = "start"
    /\ \E l \in {load_config(config_file, NoEffect)} :
        LET cfg == l.effect.config
            drawn == /\ {"status_fg", "status_bg"} \subseteq DOMAIN cfg
                     /\ cfg["status_fg"] \in COLORS
                     /\ cfg["status_bg"] \in COLORS
        IN  /\ config' = cfg
            /\ config_loaded' = l.loaded
            /\ utc_offset' = l.effect.utc_offset
            /\ twentyfour' = l.effect.twentyfour
            /\ light_shift' = l.effect.light_shift
            /\ light_scale' = l.effect.light_scale
            /\ brightness' = IF l.raised THEN brightness ELSE StartupBrightness
            /\ cmds' = IF l.raised THEN cmds ELSE Append(cmds, StartupBrightness)
            /\ light_task' = IF l.raised THEN light_task ELSE "created"
            /\ display' = IF ~l.raised /\ drawn THEN Connecting ELSE display
            /\ main_task' = IF ~l.raised /\ drawn THEN "connecting" ELSE "dead"
    /\ UNCHANGED <<task_queue, loop, running, producers, enqueue_result, attempts,
                   accepted, started, finished>>
    /\ UNCHANGED <<rtc, elapsed, hour, minute, second, last_second, ret,
                   since_call, same_second, lastOp>>
    /\ UNCHANGED <<lights, lights_next, prev_bright, actual_bright, iters>>
    /\ UNCHANGED <<captured, scrolled, received, deliveries, config_file, clock_config>>

\* main() from the end of client.connect() on: setup_mqtt catches OSError and
\* calls clock.scroll_error, creates the mqtt_up and mqtt_receiver tasks and
\* returns; main then evaluates clock.sync_time_task, an attribute Clock does
\* not have. The AttributeError leaves main; asyncio.run(main()) raises it and
\* the finally clause replaces the event loop, so no task runs again and
\* clock.main_loop() is never called.
MqttConnect ==
    /\ main_task = "connecting"
    /\ \E outcome \in ConnectOutcomes :
        \E id \in {attempts + 1} :
        \E r \in {IF outcome = "OSError"
                   THEN scroll_error(Word("MQTT connection failed"), id)
                   ELSE NoEffect} :
            /\ task_queue' = r.queue
            /\ enqueue_result' = IF r.enqueue = "none" THEN enqueue_result ELSE r.enqueue
            /\ attempts' = IF r.enqueue = "none" THEN attempts ELSE id
            /\ accepted' = IF r.enqueue = "ok" THEN Append(accepted, id) ELSE accepted
            /\ captured' = IF r.enqueue = "ok" THEN captured @@ (id :> r.closure)
                           ELSE captured
    /\ producers' = [p \in Producers |-> "dead"]
    /\ light_task' = "dead"
    /\ main_task' = "dead"
    /\ UNCHANGED <<loop, running, started, finished, display>>
    /\ UNCHANGED clockVars
    /\ UNCHANGED <<lights, lights_next, prev_bright, actual_bright, light_shift,
                   light_scale, brightness, cmds, iters>>
    /\ UNCHANGED <<scrolled, received, deliveries, config_file, clock_config,
                   config_loaded>>

\* light_sense runs while main() awaits client.connect().
BootLightStart == main_task = "connecting" /\ LightSenseStart(PositiveLights)
BootLightLoop == main_task = "connecting" /\ LightSenseLoop(PositiveLights, MaxBootIter)

NextBoot ==
    \/ MainStart
    \/ MqttConnect
    \/ BootLightStart
    \/ BootLightLoop

SpecBoot == InitBoot /\ [][NextBoot]_vars

----------------------------------------------------------------------------
\* Properties of the task queue and the scheduler loop.

Range(q) == {q[i] : i \in 1..Len(q)}
NoDuplicates(q) == \A i, j \in 1..Len(q) : q[i] = q[j] => i = j
FirstTasks == [i \in 1..QueueCap |-> i]

\* C1: tasks run in strict enqueue order. The closures started are, in order,
\* the first closures accepted; the ones accepted and not yet started are the
\* queue, in order; a closure is started only after every closure before it
\* has returned; none is accepted or started twice.
C1_StrictEnqueueOrder ==
    /\ IsPrefix(started, accepted)
    /\ accepted = started \o task_queue
    /\ NoDuplicates(accepted)
    /\ IsPrefix(finished, started)
    /\ Len(started) - Len(finished) <= 1
    /\ running # NoTask =>
         /\ started # <<>>
         /\ running.id = started[Len(started)]
         /\ Len(finished) = Len(started) - 1

\* Two tasks have run to completion, a third is running and more are queued.
C1_Witness ==
    /\ Len(finished) >= 2
    /\ running # NoTask
    /\ Len(task_queue) >= 2

\* C2 (as claimed): an enqueue on a full queue returns normally, drops the new
\* task, and the producer keeps running.
C2_EnqueueOnFullIsSilent ==
    /\ enqueue_result # "IndexError"
    /\ \A p \in Producers : producers[p] = "running"

\* C3: the queue never holds more than 10 tasks; when 11 tasks are enqueued
\* and none has been dequeued, the queue holds the first 10 in order; the 11th
\* is never run, and the tasks run are the retained ones in FIFO order.
C3_CapacityTen ==
    /\ Len(task_queue) <= QueueCap
    /\ (attempts >= QueueCap + 1 /\ started = <<>>) =>
         /\ task_queue = FirstTasks
         /\ accepted = FirstTasks
    /\ (attempts >= QueueCap + 1 /\ (QueueCap + 1) \notin Range(accepted)) =>
         /\ IsPrefix(FirstTasks, accepted)
         /\ IsPrefix(started, accepted)
         /\ (QueueCap + 1) \notin Range(started)
         /\ Len(started) >= QueueCap => SubSeq(started, 1, QueueCap) = FirstTasks

\* 11 tasks were enqueued with none dequeued, and the 10 retained have all run.
C3_Witness ==
    /\ attempts >= QueueCap + 1
    /\ (QueueCap + 1) \notin Range(accepted)
    /\ finished = FirstTasks

\* C4 (as claimed): main_loop is still running after a task has raised.
C4_LoopSurvivesFailingTask == loop # "dead"

\* C5: while main_loop awaits a message task, no step removes anything from
\* the queue, starts another task, calls update_time or renders the clock; the
\* task in progress stays the same until it returns.
C5_RunningTaskNotPreempted ==
    [][running # NoTask =>
         /\ IsPrefix(task_queue, task_queue')
         /\ started' = started
         /\ display'.kind = "message"
         /\ display'.id = running.id
         /\ last_second' = last_second
         /\ (running' = NoTask \/ running'.id = running.id)]_vars

\* Task 1 is in its trailing pause with the queue full: task 11 was enqueued
\* while task 1 was running.
C5_Witness ==
    /\ running.id = 1
    /\ running.at = "sleep_tail"
    /\ Len(task_queue) = QueueCap

----------------------------------------------------------------------------
\* Properties of time keeping.

ConfiguredHour ==
    (rtc.hour + int(config["utc_offset"]).v) % (IF bool(config["24_hour"]) THEN 24 ELSE 12)

\* C7: a config update leaves the hour, minute and second held by the clock
\* as they were, and every update_time call computes the hour with the
\* offset of the configuration in force at the call.
C7_OffsetFromNextUpdate ==
    [][/\ HandleConfig => (hour' = hour /\ minute' = minute /\ second' = second)
       /\ UpdateTimeCall => (hour' = ConfiguredHour /\ minute' = rtc.minute
                             /\ second' = rtc.second)]_vars

\* utc_offset was changed from 0 to 5 and update_time has been called since,
\* in the second of the previous call.
C7_Witness ==
    /\ lastOp = "update_time"
    /\ same_second
    /\ since_call = 0
    /\ utc_offset = 5
    /\ twentyfour
    /\ hour = (rtc.hour + 5) % 24

----------------------------------------------------------------------------
\* Properties of the brightness controller.

\* C8: every value light_sense passes to gu.set_brightness differs from the
\* value applied before it (main's start-up value for the first) by more than
\* MIN_BRIGHT_STEP.
C8_MinBrightStep ==
    \A i \in 2..Len(cmds) : Abs(cmds[i] - cmds[i - 1]) > MIN_BRIGHT_STEP

\* light_sense has issued at least two commands and is still running.
C8_Witness ==
    /\ light_task = "running"
    /\ Len(cmds) >= 3

\* The brightness a window of floor readings (1, whose logarithm is 0) maps to.
FloorValue == Max(Min(light_shift, One), 0)

DefaultLightConfig == light_shift = DefaultLightShift /\ light_scale = DefaultLightScale

\* C9 (as claimed): with every reading 1 and the start-up brightness 0.2,
\* light_sense issues exactly one set command.
C9_ExactlyOneCommand ==
    (DefaultLightConfig /\ iters >= 1) => Len(cmds) = 2

\* C9 (amended): with every reading 1, the smoothed brightness moves
\* monotonically towards the clamped floor value; light_sense issues a set
\* command on each pass where the smoothed value is more than MIN_BRIGHT_STEP
\* from the applied one, each closer to the floor value than the one before,
\* and none once the applied value is within MIN_BRIGHT_STEP of the floor
\* value. With the default light_shift and light_scale the first command
\* (0.16) comes on the first pass, ten commands are issued in all, the last
\* on pass 18, by when the smoothed value is within MIN_BRIGHT_STEP of 0.
C9_FloorScenario ==
    /\ \A i \in 2..Len(cmds) :
         Abs(cmds[i] - FloorValue) < Abs(cmds[i - 1] - FloorValue)
    /\ \A i \in 1..(Len(cmds) - 1) : Abs(cmds[i] - FloorValue) > MIN_BRIGHT_STEP
    /\ light_task # "created" =>
         /\ Abs(prev_bright - FloorValue) <= Abs(actual_bright - FloorValue)
         /\ actual_bright = cmds[Len(cmds)]
    /\ (DefaultLightConfig /\ iters >= 1) => cmds[2] = 1600
    /\ (DefaultLightConfig /\ iters >= 18) =>
         /\ Len(cmds) = 11
         /\ Abs(prev_bright - FloorValue) <= MIN_BRIGHT_STEP

\* The default configuration has run 30 passes of floor readings: ten set
\* commands after main's, and the smoothed value within 0.0005 of the floor.
C9_Witness ==
    /\ DefaultLightConfig
    /\ iters >= 30
    /\ Len(cmds) = 11
    /\ prev_bright <= 5

\* C10 (as claimed): a non-positive window average raises no error and the
\* brightness controller keeps running.
C10_NonPositiveLightClamped == light_task # "dead"

----------------------------------------------------------------------------
\* Properties of the scheduler loop and of scroll_text.

\* C18: the clock face is rendered only by a tick of main_loop that finds the
\* task queue empty and whose update_time call reports a changed second; a
\* tick that finds the queue non-empty starts exactly one task, the head of
\* the queue, and renders no clock.
C18_ClockOnlyWhenIdle ==
    [][/\ (display' # display /\ display'.kind = "clock") =>
            /\ loop = "tick"
            /\ task_queue = <<>>
            /\ lastOp' = "update_time"
            /\ since_call' = 0
            /\ ret'
            /\ display' = ClockFace(text(hour', minute', second'))
            /\ started' = started
       /\ (loop = "tick" /\ loop' # "tick" /\ task_queue # <<>>) =>
            /\ started' = Append(started, Head(task_queue))
            /\ task_queue' = Tail(task_queue)
            /\ UNCHANGED <<hour, minute, second, last_second, since_call>>
            /\ display'.kind = "clock" => display' = display]_vars

\* The clock is on the panel after two message tasks have run back to back.
C18_Witness ==
    /\ display.kind = "clock"
    /\ Len(finished) >= 2
    /\ task_queue # <<>>

\* C19 (as claimed): every accepted task is eventually started. In a finite
\* run: whenever a task is queued, the scheduler still has a step to take
\* (start it, resume the task it awaits, or wake from its sleep).
C19_QueuedTaskCanProgress ==
    task_queue # <<>> => ENABLED (RunQueuedTask \/ TaskResume \/ LoopWake)

\* Steps of scroll_text still to come for a frame: the scroll positions left
\* and the pauses.
Remaining(f) ==
    IF f.at = "none" THEN 0
    ELSE IF f.at \in {"sleep_fit", "sleep_tail"} THEN 1
    ELSE (f.x - f.min_x) + 2

\* C20: a started message task terminates. Each resumption of scroll_text
\* brings it strictly closer to its return, and it can always be resumed; a
\* text that fits is drawn once and returns after its pause; a wider text
\* starts at the left margin, moves one column left per step down to min_x,
\* makes its trailing pause and returns.
C20_ScrollTerminates ==
    [][/\ (loop = "task" /\ running' # running) =>
            /\ Remaining(running') < Remaining(running)
            /\ running.at = "sleep_fit" => (running' = NoTask /\ display' = display)
            /\ running.at = "sleep_tail" => running' = NoTask
            /\ running.at \in {"sleep_head", "sleep_scroll"} =>
                 IF running.x > running.min_x
                 THEN /\ running'.at = "sleep_scroll"
                      /\ running'.x = running.x - 1
                      /\ display' = Message(running.id, running.x)
                 ELSE running'.at = "sleep_tail" /\ running'.x = running.min_x
       /\ (loop = "tick" /\ loop' = "task") =>
            \/ running'.at = "sleep_fit"
            \/ /\ running'.at = "sleep_head"
               /\ running'.x = x_margin
               /\ running'.min_x < 0
       /\ loop = "task" =>
            /\ running # NoTask
            /\ running.min_x <= running.x
            /\ running.x <= x_margin \/ running.at = "sleep_fit"
            /\ ENABLED TaskResume
            /\ loop' # "task" => (running' = NoTask /\ finished' = Append(finished, running.id))]_vars

\* A text two columns wider than the panel has scrolled to its last position
\* and is in its trailing pause.
C20_Witness ==
    /\ running.at = "sleep_tail"
    /\ running.x = running.min_x
    /\ running.min_x = 0 - 2 - x_margin
    /\ display = Message(running.id, running.min_x + 1)

----------------------------------------------------------------------------
\* Properties of the MQTT receiver.

\* A step in which mqtt_receiver handled a payload.
Delivered == deliveries' # deliveries

ReceiverRuns == producers["mqtt_receiver"] = "running"

\* Not JSON, without a type entry, or with a type that no handler knows.
Malformed(p) ==
    \/ ~p.json
    \/ ~p.object
    \/ "type" \notin DOMAIN p.obj
    \/ p.obj["type"] \notin {Word("config"), Word("message"), Word("sync")}

\* C11 (as claimed): a payload that is not JSON, lacks the type field or has
\* an unknown type is discarded: the task queue, the configuration, the clock
\* state and the brightness parameters are unchanged and mqtt_receiver goes
\* on running.
C11_MalformedPayloadDiscarded ==
    [][(Delivered /\ Malformed(received'.payload)) =>
         /\ UNCHANGED <<task_queue, accepted, config, utc_offset, twentyfour, hour,
                        minute, second, last_second, rtc, light_shift, light_scale>>
         /\ ReceiverRuns']_vars

\* C12 (as claimed): a message payload with no message key, or with an empty
\* message, enqueues nothing and mqtt_receiver goes on running.
C12_BadMessageDiscarded ==
    [][(/\ Delivered
        /\ HasType(received'.payload, "message")
        /\ \/ "message" \notin DOMAIN received'.payload.obj
           \/ ~bool(received'.payload.obj["message"])) =>
         /\ UNCHANGED <<task_queue, accepted, attempts>>
         /\ ReceiverRuns']_vars

\* The configuration dictionary and every field derived from it agree.
ConfigInEffect ==
    /\ int(config["utc_offset"]).ok
    /\ utc_offset = int(config["utc_offset"]).v
    /\ twentyfour = bool(config["24_hour"])
    /\ "light_shift" \in DOMAIN config =>
         (float(config["light_shift"]).ok /\ light_shift = float(config["light_shift"]).v)
    /\ "light_scale" \in DOMAIN config =>
         (float(config["light_scale"]).ok /\ light_scale = float(config["light_scale"]).v)

\* C13 (as claimed): a config update is all or nothing. After the handling of
\* a config payload either every entry of the payload is in the dictionary
\* and the clock fields and brightness parameters are the ones it gives, or
\* the dictionary, the clock fields and the brightness parameters are all as
\* they were.
C13_ConfigUpdateAtomic ==
    [][(Delivered /\ HasType(received'.payload, "config")) =>
         \/ /\ \A k \in DOMAIN received'.payload.obj \ {"persist"} :
                  k \in DOMAIN config' /\ config'[k] = received'.payload.obj[k]
            /\ ConfigInEffect'
         \/ UNCHANGED <<config, utc_offset, twentyfour, light_shift, light_scale>>]_vars

\* The colour name message_task settles on: the name asked for when
\* gfx.COLORS has it, the fallback otherwise.
InForce(name, fallback) == IF name \in COLORS THEN name ELSE fallback

\* C14: a queued message task shows the text and colours in force when it
\* was enqueued. The closure of an accepted message holds the text of the
\* payload and the colours the payload names, or the message colours of the
\* configuration at that moment; no later step, config updates included,
\* changes what a closure holds; and when the task is started scroll_text is
\* given exactly what the closure holds.
C14_CapturedAtEnqueue ==
    [][/\ \A id \in DOMAIN captured :
            id \in DOMAIN captured' /\ captured'[id] = captured[id]
       /\ (Delivered /\ accepted' # accepted) =>
            LET obj == received'.payload.obj
                c == captured'[accepted'[Len(accepted')]]
            IN  /\ HasType(received'.payload, "message")
                /\ c.text = obj["message"]
                /\ c.fg_name = InForce(IF "foreground" \in DOMAIN obj THEN obj["foreground"]
                                       ELSE config["message_fg"], Word("white"))
                /\ c.bg_name = InForce(IF "background" \in DOMAIN obj THEN obj["background"]
                                       ELSE config["message_bg"], Word("black"))
       /\ (started' # started /\ loop' = "task") =>
            LET c == captured[Head(task_queue)]
            IN  scrolled' = [text |-> c.text, fg |-> c.fg_name, bg |-> c.bg_name]]_vars

\* A message enqueued under the default colours has just been started and is
\* shown in blue on black, while the configuration now says green on white.
C14_Witness ==
    /\ loop = "task"
    /\ running.at \in {"sleep_fit", "sleep_head"}
    /\ scrolled = [text |-> Word("hello"), fg |-> Word("blue"), bg |-> Word("black")]
    /\ config["message_fg"] = Word("green")
    /\ config["message_bg"] = Word("white")
    /\ captured[running.id].fg_name = Word("blue")

\* C15 (as claimed): whatever the network does and whether or not the queue
\* is full, sync_time returns normally: a sync payload enqueues at most one
\* status or error message and leaves mqtt_receiver running.
C15_SyncNeverStopsReceiver ==
    [][(Delivered /\ HasType(received'.payload, "sync")) =>
         /\ ReceiverRuns'
         /\ Len(accepted') <= Len(accepted) + 1
         /\ attempts' <= attempts + 1]_vars

----------------------------------------------------------------------------
\* Properties of the hour and of the day fraction.

\* C16 (as claimed): after update_time the seconds through the day that
\* percent_to_midday computes are those of the local time of day,
\* (((rtc hour + utc_offset) mod 24) * 60 + minute) * 60 + second, in the
\* 24-hour and in the 12-hour format alike.
C16_SecondsThroughLocalDay ==
    lastOp = "update_time" =>
        time_through_day(hour, minute, second) =
            ((((rtc.hour + utc_offset) % HoursPerDay) * MinutesPerHour + rtc.minute)
                * SecondsPerMinute) + rtc.second

\* C17: after every update_time the hour is an integer of 0..23, whatever the
\* RTC hour, the offset (of either sign, beyond a day) and the format; the
\* minute and second are the ones read from the RTC.
C17_HourInRange ==
    /\ hour \in 0..(HoursPerDay - 1)
    /\ lastOp = "update_time" =>
         /\ minute = rtc.minute
         /\ second = rtc.second
         /\ twentyfour => hour = (rtc.hour + utc_offset) % HoursPerDay

\* update_time has run at 02:59:59 RTC with an offset of -30 hours in the
\* 12-hour format.
C17_Witness ==
    /\ lastOp = "update_time"
    /\ utc_offset = -30
    /\ ~twentyfour
    /\ rtc = [hour |-> 2, minute |-> 59, second |-> 59]
    /\ hour = 8

----------------------------------------------------------------------------
\* Properties of the brightness values.

\* C21 (as claimed): with positive readings and any configured light_shift
\* and light_scale, every value passed to gu.set_brightness lies in [0, 1]
\* and the smoothed brightness (prev_bright) and the applied brightness lie
\* in [0, 1] in every state of light_sense.
C21_BrightnessInUnitRange ==
    /\ \A i \in 1..Len(cmds) : cmds[i] \in 0..One
    /\ brightness \in 0..One
    /\ light_task # "created" => (prev_bright \in 0..One /\ actual_bright \in 0..One)

\* C22 (as claimed): at the end of every pass of light_sense the applied
\* brightness is within MIN_BRIGHT_STEP of the smoothed brightness; the
\* applied brightness changes exactly when gu.set_brightness is called, to the
\* value passed, and is otherwise what it was.
C22_AppliedWithinStep ==
    [][light_task' = "running" =>
         /\ ~IsNaN(prev_bright') /\ ~IsNaN(actual_bright')
         /\ Abs(prev_bright' - actual_bright') <= MIN_BRIGHT_STEP
         /\ cmds' # cmds =>
              (cmds' = Append(cmds, actual_bright') /\ brightness' = actual_bright')
         /\ cmds' = cmds =>
              actual_bright' = IF light_task = "created" THEN brightness
                               ELSE actual_bright]_vars

----------------------------------------------------------------------------
\* Properties of the start-up and of the configuration Clock holds.

\* C23 (as claimed): a status or error message enqueued by scroll_status or
\* scroll_error captures the status or error colours of the current
\* configuration, whatever config updates came before it and whether or not
\* load_config loaded a persisted file at start-up.
C23_StatusFollowsConfig ==
    [][\A id \in (DOMAIN captured') \ (DOMAIN captured) :
         LET c == captured'[id]
         IN  IF c.text = Word("Time sync failed")
             THEN /\ c.fg_name = InForce(config["error_fg"], Word("white"))
                  /\ c.bg_name = InForce(config["error_bg"], Word("black"))
             ELSE /\ c.fg_name = InForce(config["status_fg"], Word("white"))
                  /\ c.bg_name = InForce(config["status_bg"], Word("black"))]_vars

\* C24 (as claimed): start-up reaches the scheduler loop on every path: main()
\* does not end before it has entered Clock.main_loop, whether the MQTT
\* connection succeeds or fails and whether clock-config.json is present,
\* missing or malformed.
C24_StartupReachesMainLoop == main_task # "dead"

====
